---- MODULE Spec2Model ----
(***************************************************************************)
(* A model of replicon.py, the command-line client of the Replicon         *)
(* time-tracking service.                                                  *)
(*                                                                         *)
(* Modelling conventions                                                   *)
(*  - a datetime.date is its proleptic Gregorian ordinal (date.min = 1);   *)
(*    an API date dict is the record [year, month, day];                   *)
(*  - a URI string "a:b:c" is the sequence of its colon-separated          *)
(*    segments, so string concatenation is \o and uri.split(':')[-1] is    *)
(*    the last element;                                                    *)
(*  - Python's None is the record None; '' is the empty string (<<>> for   *)
(*    a URI); a missing command-line option is '';                         *)
(*  - every HTTP POST is one step: the request is sent and the reply       *)
(*    ("ok" with a payload, "error", or an exception raised by requests    *)
(*    or by the JSON decoding) is chosen by the environment;               *)
(*  - sys.exit(1) ends at pc = "exited"; an uncaught exception ends at     *)
(*    pc = "raised" with the exception's name in msg (the interpreter      *)
(*    prints the traceback and exits with status 1).                       *)
(***************************************************************************)
EXTENDS Integers, Sequences, FiniteSets, TLC

VARIABLES
    pc,             \* position of the running script / caller
    exitCode,       \* process exit status; Running while it has not ended
    msg,            \* the last error message printed, or the uncaught exception
    lastReply,      \* what the last HTTP POST received: "none", "ok", "error", "exception"
    requests,       \* number of HTTP POSTs issued so far, per service operation
    swimlane,       \* Replicon.swimlane
    userURI,        \* Replicon.userURI
    self_timesheet, \* Replicon.timesheet
    clients,        \* Replicon.clients
    args,           \* the parsed command line (argparse namespace)
    client,         \* local variable client of a subcommand
    project,        \* local variable project of a subcommand
    task,           \* local variable task of a subcommand
    timesheet,      \* the Timesheet object in hand (local variable timesheet)
    lastPut,        \* body of the last PutStandardTimesheet2 request, or None
    ops,            \* the methods the caller has invoked so far, in order (library use)
    users,          \* local variable users of Replicon.__init__
    printed,        \* the tasks taskhistory has printed
    history,        \* local variable history of taskhistory
    day,            \* local variable day of taskhistory
    server,         \* what the service holds for this run
    calls,          \* number of method calls the caller has made (library use)
    conv            \* inputs and results of the conversion helpers

vars == <<pc, exitCode, msg, lastReply, requests, swimlane, userURI,
          self_timesheet, clients, args, client, project, task, timesheet,
          lastPut, ops, users, printed, history, day, server, calls, conv>>

----------------------------------------------------------------------------
(* Values *)

None == [none |-> TRUE]

\* a local variable that has not been assigned yet
Unset == [unset |-> TRUE]

Running == -1

----------------------------------------------------------------------------
(* Bounds of the model *)

\* dates 1 .. MaxOrdinal are converted in SpecConv (0001-01-01 onward; year 4 is leap)
MaxOrdinal == 1500

\* method calls a caller makes on one object in SpecTimesheet and SpecClients
MaxCalls == 3

\* length of the longest list GetEnabledUsers returns
MaxUsers == 3

\* timesheet periods, counted from date.min, in which the user of
\* taskhistory may have booked
NumPeriods == 3

MaxClientCalls == 3

\* the hours of the durations converted
MaxHours == 3

----------------------------------------------------------------------------
(* datetime.date: the calendar arithmetic behind .year/.month/.day and     *)
(* datetime.date(y, m, d)                                                  *)

IsLeap(year) == year % 4 = 0 /\ (year % 100 # 0 \/ year % 400 = 0)

DaysInMonth(year, month) ==
    IF month = 2 THEN (IF IsLeap(year) THEN 29 ELSE 28)
    ELSE IF month \in {4, 6, 9, 11} THEN 30 ELSE 31

RECURSIVE DaysBeforeMonth(_, _)
DaysBeforeMonth(year, month) ==
    IF month <= 1 THEN 0
    ELSE DaysBeforeMonth(year, month - 1) + DaysInMonth(year, month - 1)

DaysBeforeYear(year) ==
    LET y == year - 1
    IN  y * 365 + (y \div 4) - (y \div 100) + (y \div 400)

\* the result of datetime.date(...) when it raises ValueError
DateError == 0

\* datetime.date(year, month, day) as an ordinal; DateError when out of range
ymd2ord(y, m, d) ==
    IF /\ y \in 1..9999
       /\ m \in 1..12
       /\ d >= 1
       /\ d <= DaysInMonth(y, m)
    THEN DaysBeforeYear(y) + DaysBeforeMonth(y, m) + d
    ELSE DateError

\* (year, month, day) of an ordinal
ord2ymd(ordinal) ==
    LET n0   == ordinal - 1
        n400 == n0 \div 146097
        r400 == n0 % 146097
        n100 == r400 \div 36524
        r100 == r400 % 36524
        n4   == r100 \div 1461
        r4   == r100 % 1461
        n1   == r4 \div 365
        n    == r4 % 365
        year == n400 * 400 + 1 + n100 * 100 + n4 * 4 + n1
    IN  IF n1 = 4 \/ n100 = 4
        THEN [year |-> year - 1, month |-> 12, day |-> 31]
        ELSE LET month == CHOOSE m \in 1..12 :
                              /\ DaysBeforeMonth(year, m) <= n
                              /\ n < DaysBeforeMonth(year, m) + DaysInMonth(year, m)
             IN  [year |-> year, month |-> month,
                  day |-> n - DaysBeforeMonth(year, month) + 1]

\* a bug: month and day exchanged in the dict
date_to_dict_swapped(datetime_date) ==
    LET ymd == ord2ymd(datetime_date)
    IN  [year |-> ymd.year, month |-> ymd.day, day |-> ymd.month]

date_to_dict(datetime_date) ==
    LET ymd == ord2ymd(datetime_date)
    IN  [year |-> ymd.year, month |-> ymd.month, day |-> ymd.day]

dict_to_date(dict_date) ==
    ymd2ord(dict_date.year, dict_date.month, dict_date.day)

\* datetime_date - datetime.timedelta(1); DateError stands for OverflowError
minus_one_day(datetime_date) ==
    IF datetime_date - 1 >= 1 THEN datetime_date - 1 ELSE DateError

----------------------------------------------------------------------------
(* Python values that may be an int or a str holding its decimal digits    *)

PyInt(n) == [type |-> "int", val |-> n]

PyStr(n) == [type |-> "str", val |-> n]

\* int(x)
py_int(x) == x.val

\* a bug: the minutes are counted as seconds
dict_to_seconds_minutes_unscaled(dict_duration) ==
    py_int(dict_duration.hours) * 60 * 60
    + py_int(dict_duration.minutes)
    + py_int(dict_duration.seconds)

\* dict_to_seconds: hours, minutes and seconds, each through int()
dict_to_seconds(dict_duration) ==
    py_int(dict_duration.hours) * 60 * 60
    + py_int(dict_duration.minutes) * 60
    + py_int(dict_duration.seconds)

\* uri.split(':')[-1]
uri_id(uri) == uri[Len(uri)]

----------------------------------------------------------------------------
(* Domain objects built from the service's JSON                            *)

\* Client(json)
Client(json) ==
    [uri |-> json.uri, id |-> uri_id(json.uri),
     displayText |-> json.displayText, name |-> json.name]

\* Project(json): json holds the project's JSON under 'project'
Project(json) ==
    [json |-> json.project, uri |-> json.project.uri,
     id |-> uri_id(json.project.uri),
     displayText |-> json.project.displayText, name |-> json.project.name]

\* Task(json): json holds the task's JSON under 'task'
Task(json) ==
    [json |-> json.task, uri |-> json.task.uri, id |-> uri_id(json.task.uri),
     displayText |-> json.task.displayText]

\* the last 'Ticket #' custom field with a text, '' when there is none
ticket_num_of(customFieldValues) ==
    LET hits == { i \in 1..Len(customFieldValues) :
                    /\ customFieldValues[i].customField.name = "Ticket #"
                    /\ customFieldValues[i].text # "" }
    IN  IF hits = {} THEN ""
        ELSE customFieldValues[CHOOSE i \in hits : \A j \in hits : j <= i].text

\* TimesheetAllocation.__init__ raises AttributeError at self.project.uri
\* when json['project'] is None
allocation_raises(json) == json.project = None

\* the row key: project.uri, followed by task.uri when there is a task
rowkey_of(a_project, a_task) ==
    IF a_task # None THEN a_project.uri \o a_task.uri ELSE a_project.uri

\* TimesheetAllocation(json), for a json whose project is not None
TimesheetAllocation(json) ==
    LET a_project == Project(json)
        a_task    == IF json.task # None THEN Task(json) ELSE None
    IN  [json             |-> json,
         date             |-> dict_to_date(json.date),
         comments         |-> json.comments,
         duration_seconds |-> dict_to_seconds(json.duration),
         project          |-> a_project,
         task             |-> a_task,
         ticket_num       |-> ticket_num_of(json.customFieldValues),
         rowkey           |-> rowkey_of(a_project, a_task)]

\* TimesheetAllocation.same_fields_as
same_fields_as(self, json) ==
    /\ json.date = self.json.date
    /\ json.project = self.json.project
    /\ json.task = self.json.task
    /\ json.customFieldValues = self.json.customFieldValues

\* Timesheet(replicon_obj, json)
Timesheet(json) ==
    [uri |-> json.uri,
     start_date |-> dict_to_date(json.dateRange.startDate),
     end_date |-> dict_to_date(json.dateRange.endDate),
     timeAllocations |->
         [i \in 1..Len(json.timeAllocations) |->
             TimesheetAllocation(json.timeAllocations[i])]]

----------------------------------------------------------------------------
(* Timesheet methods                                                       *)

\* the allocation record book() builds from its arguments
book_ta(a_date, a_project, a_task, duration, comment) ==
    [date |-> date_to_dict(a_date),
     comments |-> comment,
     duration |-> [hours |-> PyInt(0), minutes |-> PyInt(0), seconds |-> duration],
     project |-> IF a_project # None THEN a_project.json ELSE None,
     task |-> IF a_task # None THEN a_task.json ELSE None,
     customFieldValues |-> <<>>]

\* a bug: the booked duration replaces the allocation's duration
book_overwrites(timeAllocations, a_date, a_project, a_task, duration, comment) ==
    LET ta   == book_ta(a_date, a_project, a_task, duration, comment)
        same == { i \in 1..Len(timeAllocations) :
                    same_fields_as(timeAllocations[i], ta) }
    IN  IF same # {}
        THEN [exc |-> "",
              timeAllocations |->
                  [timeAllocations EXCEPT
                      ![CHOOSE i \in same : \A j \in same : i <= j].duration_seconds
                          = py_int(duration)]]
        ELSE IF allocation_raises(ta)
        THEN [exc |-> "AttributeError", timeAllocations |-> timeAllocations]
        ELSE [exc |-> "",
              timeAllocations |-> Append(timeAllocations, TimesheetAllocation(ta))]

\* a bug: book never looks for an allocation with the same fields
book_appends_always(timeAllocations, a_date, a_project, a_task, duration, comment) ==
    LET ta == book_ta(a_date, a_project, a_task, duration, comment)
    IN  IF allocation_raises(ta)
        THEN [exc |-> "AttributeError", timeAllocations |-> timeAllocations]
        ELSE [exc |-> "",
              timeAllocations |-> Append(timeAllocations, TimesheetAllocation(ta))]

\* Timesheet.book: the allocations afterwards, and the exception it raises
\* ('' when it returns).  The first allocation with the same fields gets
\* duration_seconds += duration, which raises TypeError for a str duration;
\* without one, TimesheetAllocation(ta) is appended.
book(timeAllocations, a_date, a_project, a_task, duration, comment) ==
    LET ta   == book_ta(a_date, a_project, a_task, duration, comment)
        same == { i \in 1..Len(timeAllocations) :
                    same_fields_as(timeAllocations[i], ta) }
    IN  IF same # {}
        THEN IF duration.type = "int"
             THEN [exc |-> "",
                   timeAllocations |->
                       [timeAllocations EXCEPT
                           ![CHOOSE i \in same : \A j \in same : i <= j].duration_seconds
                               = @ + duration.val]]
             ELSE [exc |-> "TypeError", timeAllocations |-> timeAllocations]
        ELSE IF allocation_raises(ta)
        THEN [exc |-> "AttributeError", timeAllocations |-> timeAllocations]
        ELSE [exc |-> "",
              timeAllocations |-> Append(timeAllocations, TimesheetAllocation(ta))]

\* a bug: the cell's duration is given in minutes
cell_of_minutes(a) ==
    [date |-> date_to_dict(a.date),
     duration |-> [seconds |-> a.duration_seconds \div 60],
     comments |-> a.comments,
     customFieldValues |-> <<>>]

\* the cell put_json builds for allocation a
cell_of(a) ==
    [date |-> date_to_dict(a.date),
     duration |-> [seconds |-> a.duration_seconds],
     comments |-> a.comments,
     customFieldValues |-> <<>>]

\* positions of the allocations with row key k, in order
RECURSIVE positions_with_key(_, _, _)
positions_with_key(timeAllocations, k, i) ==
    IF i > Len(timeAllocations) THEN <<>>
    ELSE (IF timeAllocations[i].rowkey = k THEN <<i>> ELSE <<>>)
         \o positions_with_key(timeAllocations, k, i + 1)

\* a bug: a later allocation with a row key already seen is dropped
put_json_first_cell_only(a_timesheet) ==
    LET tas  == a_timesheet.timeAllocations
        keys == { tas[i].rowkey : i \in 1..Len(tas) }
    IN  [uri |-> a_timesheet.uri,
         rows |-> [k \in keys |->
             LET at == positions_with_key(tas, k, 1)
             IN  [project |-> [uri |-> tas[at[1]].project.uri],
                  task |-> IF tas[at[1]].task # None
                           THEN [uri |-> tas[at[1]].task.uri] ELSE None,
                  cells |-> <<cell_of(tas[at[1]])>>]]]

\* Timesheet.put_json: the PUT body.  rows is the dict the code fills, keyed
\* by row key; the body's rows list is its values in the dict's iteration
\* order, which the model leaves open.  A row takes project and task from
\* the first allocation with its key and gets one cell per allocation with
\* that key, in the allocations' order.
put_json(a_timesheet) ==
    LET tas  == a_timesheet.timeAllocations
        keys == { tas[i].rowkey : i \in 1..Len(tas) }
    IN  [uri |-> a_timesheet.uri,
         rows |-> [k \in keys |->
             LET at == positions_with_key(tas, k, 1)
             IN  [project |-> [uri |-> tas[at[1]].project.uri],
                  task |-> IF tas[at[1]].task # None
                           THEN [uri |-> tas[at[1]].task.uri] ELSE None,
                  cells |-> [j \in 1..Len(at) |-> cell_of(tas[at[j]])]]]]

\* a bug: clear forgets to empty the allocations
clear_keeps(a_timesheet) == a_timesheet

\* Timesheet.clear, before its PUT: self.timeAllocations = []
clear(a_timesheet) == [a_timesheet EXCEPT !.timeAllocations = <<>>]

----------------------------------------------------------------------------
(* The HTTP layer                                                          *)

\* what the environment may answer to a POST
Replies == {"ok", "error", "exception"}

\* print the message and sys.exit(1)
SysExit(message) ==
    /\ pc' = "exited"
    /\ exitCode' = 1
    /\ msg' = message

\* an uncaught exception: traceback, exit status 1
Raise(exception) ==
    /\ pc' = "raised"
    /\ exitCode' = 1
    /\ msg' = exception

\* every variable but those a POST itself sets
others == <<swimlane, userURI, self_timesheet, clients, args, client,
            project, task, timesheet, lastPut, ops, users, printed, history,
            day, server, calls, conv>>

\* a bug: an error reply is printed and the caller carries on
getUrl_swallows_error(url, OnOk, OnFail) ==
    /\ requests' = [requests EXCEPT ![url] = @ + 1]
    /\ \E reply \in Replies :
         /\ lastReply' = reply
         /\ IF reply = "ok" THEN OnOk
            ELSE IF reply = "error"
            THEN /\ msg' = "Error: error field of the reply"
                 /\ UNCHANGED <<pc, exitCode>>
                 /\ OnFail
            ELSE /\ SysExit("Error: exception")
                 /\ OnFail

\* Replicon._getUrl(url, data): one POST.  A reply without an error field
\* continues with OnOk (which sets pc, exitCode, msg and the variables of
\* others); a truthy error field, and any exception of the POST or of the
\* decoding, print and sys.exit(1), OnFail saying what else has changed by
\* then.
getUrl(url, OnOk, OnFail) ==
    /\ requests' = [requests EXCEPT ![url] = @ + 1]
    /\ \E reply \in Replies :
         /\ lastReply' = reply
         /\ IF reply = "ok" THEN OnOk
            ELSE /\ SysExit(IF reply = "error"
                            THEN "Error: error field of the reply"
                            ELSE "Error: exception")
                 /\ OnFail

----------------------------------------------------------------------------
(* The state every specification starts from, apart from what it sets      *)

NoRequests ==
    [k \in {"Discovery", "GetEnabledUsers", "GetTimesheetForDate2",
            "GetTimesheetDetails", "GetPageOfClients", "GetPageOfProjects",
            "GetPageOfTasks", "GetCustomFields", "GetTimesheetPeriods",
            "PutStandardTimesheet2"} |-> 0]

NoConv == [stage |-> "none"]

\* the last method the caller invoked
LastOp == IF ops = <<>> THEN "none" ELSE ops[Len(ops)]

----------------------------------------------------------------------------
(* The service's data                                                      *)

ProjectJson(n, text) ==
    [uri |-> <<"urn", "replicon-tenant", "acme", "project", n>>,
     displayText |-> text, name |-> text]

TaskJson(n, text) ==
    [uri |-> <<"urn", "replicon-tenant", "acme", "task", n>>, displayText |-> text]

P1 == ProjectJson("1", "Website")

P2 == ProjectJson("2", "Intranet")

T1 == TaskJson("7", "Design")

\* first day of the timesheet period of a date: weeks counted from date.min
PeriodStart(a_date) == a_date - ((a_date - 1) % 7)

\* 2024-01-02 and the day after
D1 == ymd2ord(2024, 1, 2)

D2 == D1 + 1

TicketField == [customField |-> [name |-> "Ticket #"], text |-> "T-9"]

\* allocations the service may hold: one hour on D1 for project P1, with or
\* without a task, with or without a custom field value
ServerAllocations ==
    { [date |-> date_to_dict(D1),
       comments |-> "",
       duration |-> [hours |-> PyInt(1), minutes |-> PyInt(0), seconds |-> PyInt(0)],
       project |-> P1,
       task |-> t,
       customFieldValues |-> c] : t \in {T1, None}, c \in {<<>>, <<TicketField>>} }

PlainAllocation(d) ==
    [date |-> date_to_dict(d),
     comments |-> "",
     duration |-> [hours |-> PyInt(1), minutes |-> PyInt(0), seconds |-> PyInt(0)],
     project |-> P1,
     task |-> T1,
     customFieldValues |-> <<>>]

\* the timesheets GetTimesheetDetails may return: no allocation, any one
\* allocation, the same allocation twice, and one row key on two dates
ServerTimeAllocations ==
    {<<>>}
    \cup { <<a>> : a \in ServerAllocations }
    \cup { <<PlainAllocation(D1), PlainAllocation(D1)>>,
           <<PlainAllocation(D1), PlainAllocation(D2)>> }

TimesheetJson(tas) ==
    [uri |-> <<"urn", "replicon-tenant", "acme", "timesheet", "42">>,
     dateRange |-> [startDate |-> date_to_dict(PeriodStart(D1)),
                    endDate |-> date_to_dict(PeriodStart(D1) + 6)],
     timeAllocations |-> tas]

----------------------------------------------------------------------------
(* Replicon: construction                                                  *)

HISTORY_LENGTH == 5

\* Config().get('auth', 'username')
ConfigLoginName == "kim"

UserJson(login, n) ==
    [loginName |-> login, uri |-> <<"urn", "replicon-tenant", "acme", "user", n>>]

\* the lists GetEnabledUsers may return
UserLists ==
    UNION { [1..n -> {UserJson("kim", "5"), UserJson("ann", "6"), UserJson("bob", "8")}] :
            n \in 0..MaxUsers }

\* a bug: the first user of the list is taken for the login user
login_user_first_entry(us, loginName) ==
    IF us = <<>> THEN [bound |-> FALSE]
    ELSE [bound |-> TRUE, uri |-> us[1].uri]

\* the loop of Replicon.__init__ over users: loginUserURI is the uri of the
\* last user whose loginName is the configured one, and stays unbound when
\* there is none
login_user(us, loginName) ==
    LET hits == { i \in 1..Len(us) : us[i].loginName = loginName }
    IN  IF hits = {} THEN [bound |-> FALSE]
        ELSE [bound |-> TRUE,
              uri |-> us[CHOOSE i \in hits : \A j \in hits : j <= i].uri]

sessionVars == <<swimlane, userURI, self_timesheet, clients>>

localVars == <<client, project, task, timesheet, users, printed, history, day>>

callerVars == <<ops, calls, conv>>

\* the state before Replicon(...) is constructed
Init ==
    /\ pc = "Discovery"
    /\ exitCode = Running
    /\ msg = ""
    /\ lastReply = "none"
    /\ requests = NoRequests
    /\ swimlane = ""
    /\ userURI = <<>>
    /\ self_timesheet = None
    /\ clients = <<>>
    /\ args = None
    /\ client = Unset
    /\ project = Unset
    /\ task = Unset
    /\ timesheet = Unset
    /\ lastPut = None
    /\ ops = <<>>
    /\ users = <<>>
    /\ printed = <<>>
    /\ history = <<>>
    /\ day = 0
    /\ server = None
    /\ calls = 0
    /\ conv = NoConv

\* Replicon.__init__: the POST to the discovery service.  sys.exit(1) raises
\* SystemExit, which "except Exception" does not catch.
Discovery ==
    /\ pc = "Discovery"
    /\ requests' = [requests EXCEPT !["Discovery"] = @ + 1]
    /\ \E reply \in Replies :
         /\ lastReply' = reply
         /\ IF reply = "ok"
            THEN /\ swimlane' = "https://swimlane/"
                 /\ pc' = "GetEnabledUsers"
                 /\ UNCHANGED <<exitCode, msg>>
            ELSE /\ SysExit(IF reply = "error"
                            THEN "Error: error field of the reply"
                            ELSE "Error: exception")
                 /\ UNCHANGED swimlane
    /\ UNCHANGED <<userURI, self_timesheet, clients, args, server, lastPut>>
    /\ UNCHANGED localVars
    /\ UNCHANGED callerVars

\* Replicon.__init__: GetEnabledUsers and the search for the login user
GetEnabledUsers ==
    /\ pc = "GetEnabledUsers"
    /\ getUrl("GetEnabledUsers",
              \E us \in UserLists :
                 LET loginUserURI == login_user(us, ConfigLoginName)
                 IN  /\ users' = us
                     /\ IF ~loginUserURI.bound
                        THEN Raise("UnboundLocalError") /\ UNCHANGED userURI
                        ELSE IF loginUserURI.uri = <<>>
                        THEN /\ SysExit("Error: unable to find current user URI")
                             /\ UNCHANGED userURI
                        ELSE /\ userURI' = loginUserURI.uri
                             /\ pc' = "constructed"
                             /\ UNCHANGED <<exitCode, msg>>,
              UNCHANGED <<users, userURI>>)
    /\ UNCHANGED <<swimlane, self_timesheet, clients, args, server, lastPut,
                   client, project, task, timesheet, printed, history, day>>
    /\ UNCHANGED callerVars

----------------------------------------------------------------------------
(* The service's lists, and the lookups in them                            *)

ClientJson(n, text, long) ==
    [uri |-> <<"urn", "replicon-tenant", "acme", "client", n>>,
     displayText |-> text, name |-> long]

Acme == ClientJson("3", "Acme", "Acme Corp")

Globex == ClientJson("4", "Globex", "Globex Inc")

\* the pages GetPageOfClients..., ...Projects... and ...Tasks... may return
ClientLists == { <<>>, <<Acme>>, <<Globex, Acme>> }

ProjectLists == { <<>>, <<[project |-> P1]>>, <<[project |-> P2], [project |-> P1]>> }

T2 == TaskJson("9", "Review")

TaskLists == { <<>>, <<[task |-> [task |-> T1]]>>,
               <<[task |-> [task |-> T2]], [task |-> [task |-> T1]]>> }

\* "for x in list: if ...: return x": the element at the least of the
\* matching positions, None (the function falls off its end) without one
first_match(list, hits) ==
    IF hits = {} THEN None
    ELSE list[CHOOSE i \in hits : \A j \in hits : i <= j]

\* the loop of Replicon.getClient over self.clients
find_client(list, search) ==
    first_match(list, { i \in 1..Len(list) :
        search = list[i].id \/ search = list[i].displayText \/ search = list[i].name })

\* the loop of Replicon.getProject over the projects
find_project(list, search) ==
    first_match(list, { i \in 1..Len(list) :
        search = list[i].id \/ search = list[i].displayText \/ search = list[i].name })

\* the loop of Replicon.getTask over the tasks
find_task(list, search) ==
    first_match(list, { i \in 1..Len(list) :
        search = list[i].id \/ search = list[i].displayText })

\* GetTimesheetDetails for the timesheet of a date
ServerTimesheetJson(a_date) ==
    [uri |-> <<"urn", "replicon-tenant", "acme", "timesheet", "42">>,
     dateRange |-> [startDate |-> date_to_dict(PeriodStart(a_date)),
                    endDate |-> date_to_dict(PeriodStart(a_date) + 6)],
     timeAllocations |->
         IF PeriodStart(a_date) \in DOMAIN server.sheets
         THEN server.sheets[PeriodStart(a_date)] ELSE <<>>]

----------------------------------------------------------------------------
(* The command line                                                        *)

CommandLine(func, a_date, a_client, a_project, a_task, a_field) ==
    [func |-> func, date |-> a_date, client |-> a_client, project |-> a_project,
     task |-> a_task, duration |-> PyStr(1800), comment |-> "", field |-> a_field]

\* the command lines: names that match an item of the lists (by display
\* text or by id) and names that match none; valid_duration returns its
\* argument, a str
CommandLines ==
    { CommandLine(f, D1, "", "", "", "") :
        f \in {"clients", "timesheet", "timesheetperiod", "clear"} }
    \cup { CommandLine("projects", D1, c, "", "", "") : c \in {"", "Acme", "3", "nope"} }
    \cup { CommandLine("tasks", D1, c, p, "", "") :
             c \in {"Acme", "3", "nope"}, p \in {"Website", "nope"} }
    \cup { CommandLine("book", D1, c, p, t, f) :
             c \in {"Acme", "3", "nope"}, p \in {"Website", "nope"},
             t \in {"Design", "nope"}, f \in {"", "Ticket #:T-9"} }
    \cup { CommandLine("taskhistory", 7 * n, "", "", "", "") : n \in 1..NumPeriods }

\* an allocation of the user's history: one hour for project P1 and a task
HistoryAllocation(a_date, t) ==
    [date |-> date_to_dict(a_date),
     comments |-> "",
     duration |-> [hours |-> PyInt(1), minutes |-> PyInt(0), seconds |-> PyInt(0)],
     project |-> P1,
     task |-> t,
     customFieldValues |-> <<>>]

\* what a period of the user's history may hold, as the task numbers of
\* its allocations ("" for an allocation without a task): nothing, an
\* allocation without a task, and allocations for up to three of six tasks
HistoryTaskLists ==
    { <<>>, <<"">>, <<"1", "1">>, <<"1", "5", "6">>, <<"2", "3", "4">>, <<"4", "5", "6">> }

\* the first days of the periods 1 .. NumPeriods
HistoryStarts == { 7 * (n - 1) + 1 : n \in 1..NumPeriods }

HistorySheet(a_date, numbers) ==
    [i \in 1..Len(numbers) |->
        HistoryAllocation(a_date,
            IF numbers[i] = "" THEN None ELSE TaskJson(numbers[i], "Task")) ]

\* what the service may hold when the command a runs: the timesheet of the
\* command's date for book, clear and timesheet; the user's history for
\* taskhistory
Servers(a) ==
    IF a.func \in {"book", "clear", "timesheet"}
    THEN { [sheets |-> [d \in {PeriodStart(a.date)} |-> tas]] :
             tas \in ServerTimeAllocations }
    ELSE IF a.func = "taskhistory"
    THEN { [sheets |-> [d \in HistoryStarts |-> HistorySheet(d, h[d])]] :
             h \in [HistoryStarts -> HistoryTaskLists] }
    ELSE { [sheets |-> <<>>] }

----------------------------------------------------------------------------
(* Spec: one run of the script: construction, then the subcommand          *)

\* the subcommand returns: the script ends with status 0
Done ==
    /\ pc' = "done"
    /\ exitCode' = 0
    /\ UNCHANGED msg

\* Replicon.getClients: where it goes first: nowhere when self.clients is
\* truthy, to the timesheet when self.timesheet is not set, else to the page
\* of clients
getClients_first(cached, sheet) ==
    IF cached # <<>> THEN "cached"
    ELSE IF sheet = None THEN "getClients.GetTimesheetForDate2"
    ELSE "getClients.GetPageOfClients"

\* Replicon.getProjects(client): with a Client, getClients() (cached, as
\* the client came from it) and the page of projects; without one,
\* self.timesheet = self.getTimesheet() first
getProjects_first(a_client, cached, sheet) ==
    IF a_client # None
    THEN (IF getClients_first(cached, sheet) = "cached"
          THEN "getProjects.GetPageOfProjects"
          ELSE getClients_first(cached, sheet))
    ELSE "getProjects.GetTimesheetForDate2"

\* the script after getTask() in book: the custom field, or the timesheet
book_after_task ==
    IF args.field # "" THEN "GetCustomFields"
    ELSE "getTimesheet.GetTimesheetForDate2"

\* args.func(args) is called: the command line and the service's data are
\* fixed here, and the subcommand runs up to its first request
Dispatch ==
    /\ pc = "constructed"
    /\ \E a \in CommandLines :
         /\ args' = a
         /\ \E sv \in Servers(a) : server' = sv
         /\ IF a.func \in {"clients", "tasks", "book"}
                \/ (a.func = "projects" /\ a.client # "")
            THEN /\ pc' = getClients_first(clients, self_timesheet)
                 /\ UNCHANGED <<client, day>>
            ELSE IF a.func = "projects"
            THEN /\ client' = None
                 /\ pc' = getProjects_first(None, clients, self_timesheet)
                 /\ UNCHANGED day
            ELSE IF a.func = "timesheetperiod"
            THEN /\ pc' = "GetTimesheetPeriods"
                 /\ UNCHANGED <<client, day>>
            ELSE /\ pc' = "getTimesheet.GetTimesheetForDate2"
                 /\ day' = IF a.func = "taskhistory" THEN a.date ELSE day
                 /\ UNCHANGED client
    /\ users' = <<>>
    /\ UNCHANGED <<exitCode, msg, lastReply, requests, lastPut, project, task,
                   timesheet, printed, history>>
    /\ UNCHANGED sessionVars
    /\ UNCHANGED callerVars

\* getClients -> getTimesheet: GetTimesheetForDate2
GetClients_ForDate2 ==
    /\ pc = "getClients.GetTimesheetForDate2"
    /\ getUrl("GetTimesheetForDate2",
              /\ pc' = "getClients.GetTimesheetDetails"
              /\ UNCHANGED <<exitCode, msg>>,
              TRUE)
    /\ UNCHANGED others

\* getClients -> getTimesheet: GetTimesheetDetails; self.timesheet is set
GetClients_Details ==
    /\ pc = "getClients.GetTimesheetDetails"
    /\ getUrl("GetTimesheetDetails",
              /\ self_timesheet' = Timesheet(ServerTimesheetJson(args.date))
              /\ pc' = "getClients.GetPageOfClients"
              /\ UNCHANGED <<exitCode, msg>>,
              UNCHANGED self_timesheet)
    /\ UNCHANGED <<swimlane, userURI, clients, args, server, lastPut>>
    /\ UNCHANGED localVars
    /\ UNCHANGED callerVars

\* getClients: the page of clients; self.clients is set, and the caller
\* goes on: clients prints them; projects, tasks and book look the client
\* up (projects exits without it) and go on to the projects; a caller of
\* getClients()/getClient() gets its result
GetClients_Clients ==
    /\ pc = "getClients.GetPageOfClients"
    /\ getUrl("GetPageOfClients",
              \E page \in ClientLists :
                 LET cs    == [i \in 1..Len(page) |-> Client(page[i])]
                     found == find_client(cs, args.client)
                 IN  /\ clients' = cs
                     /\ IF args.func = "clients"
                        THEN Done /\ UNCHANGED client
                        ELSE IF args.func = "library"
                        THEN /\ pc' = "ready"
                             /\ client' = IF LastOp = "getClient" THEN found ELSE client
                             /\ UNCHANGED <<exitCode, msg>>
                        ELSE /\ client' = found
                             /\ IF args.func = "projects" /\ found = None
                                THEN SysExit("ERROR: Unable to locate client")
                                ELSE /\ pc' = getProjects_first(found, cs, self_timesheet)
                                     /\ UNCHANGED <<exitCode, msg>>,
              UNCHANGED <<clients, client>>)
    /\ UNCHANGED <<swimlane, userURI, self_timesheet, args, server, lastPut,
                   project, task, timesheet, users, printed, history, day>>
    /\ UNCHANGED callerVars

\* getProjects(None) -> getTimesheet: GetTimesheetForDate2
GetProjects_ForDate2 ==
    /\ pc = "getProjects.GetTimesheetForDate2"
    /\ getUrl("GetTimesheetForDate2",
              /\ pc' = "getProjects.GetTimesheetDetails"
              /\ UNCHANGED <<exitCode, msg>>,
              TRUE)
    /\ UNCHANGED others

\* getProjects(None) -> getTimesheet: GetTimesheetDetails; self.timesheet is set
GetProjects_Details ==
    /\ pc = "getProjects.GetTimesheetDetails"
    /\ getUrl("GetTimesheetDetails",
              /\ self_timesheet' = Timesheet(ServerTimesheetJson(args.date))
              /\ pc' = "getProjects.GetPageOfProjects"
              /\ UNCHANGED <<exitCode, msg>>,
              UNCHANGED self_timesheet)
    /\ UNCHANGED <<swimlane, userURI, clients, args, server, lastPut>>
    /\ UNCHANGED localVars
    /\ UNCHANGED callerVars

\* getProjects: the page of projects.  projects prints them; tasks looks
\* the project up, exits without it and goes on to its tasks; book looks it
\* up and goes on to getTask, which asks for the tasks of a project only
GetProjects_Projects ==
    /\ pc = "getProjects.GetPageOfProjects"
    /\ getUrl("GetPageOfProjects",
              \E page \in ProjectLists :
                 LET ps    == [i \in 1..Len(page) |-> Project(page[i])]
                     found == find_project(ps, args.project)
                 IN  IF args.func = "projects"
                     THEN Done /\ UNCHANGED <<project, task>>
                     ELSE /\ project' = found
                          /\ IF args.func = "tasks"
                             THEN /\ IF found = None
                                     THEN SysExit("ERROR: Unable to locate project")
                                     ELSE /\ pc' = "getTasks.GetPageOfTasks"
                                          /\ UNCHANGED <<exitCode, msg>>
                                  /\ UNCHANGED task
                             ELSE /\ IF found # None
                                     THEN /\ pc' = "getTasks.GetPageOfTasks"
                                          /\ UNCHANGED task
                                     ELSE /\ task' = None
                                          /\ pc' = book_after_task
                                  /\ UNCHANGED <<exitCode, msg>>,
              UNCHANGED <<project, task>>)
    /\ UNCHANGED <<swimlane, userURI, self_timesheet, clients, args, server,
                   lastPut, client, timesheet, users, printed, history, day>>
    /\ UNCHANGED callerVars

\* getTasks: the page of tasks.  tasks prints them; book looks the task up
GetTasks_Tasks ==
    /\ pc = "getTasks.GetPageOfTasks"
    /\ getUrl("GetPageOfTasks",
              \E page \in TaskLists :
                 LET ts == [i \in 1..Len(page) |-> Task(page[i].task)]
                 IN  IF args.func = "tasks"
                     THEN Done /\ UNCHANGED task
                     ELSE /\ task' = find_task(ts, args.task)
                          /\ pc' = book_after_task
                          /\ UNCHANGED <<exitCode, msg>>,
              UNCHANGED task)
    /\ UNCHANGED <<swimlane, userURI, self_timesheet, clients, args, server,
                   lastPut, client, project, timesheet, users, printed,
                   history, day>>
    /\ UNCHANGED callerVars

\* book -f: getTimesheetEntryCustomField; the fieldset it gives is passed to
\* Timesheet.book, which does not read it
GetCustomFields ==
    /\ pc = "GetCustomFields"
    /\ getUrl("GetCustomFields",
              /\ pc' = "getTimesheet.GetTimesheetForDate2"
              /\ UNCHANGED <<exitCode, msg>>,
              TRUE)
    /\ UNCHANGED others

\* getTimesheet(date) of timesheet, taskhistory, book and clear:
\* GetTimesheetForDate2
GetTimesheet_ForDate2 ==
    /\ pc = "getTimesheet.GetTimesheetForDate2"
    /\ getUrl("GetTimesheetForDate2",
              /\ pc' = "getTimesheet.GetTimesheetDetails"
              /\ UNCHANGED <<exitCode, msg>>,
              TRUE)
    /\ UNCHANGED others

\* a bug: the task of every allocation is appended, seen before or not
RECURSIVE taskhistory_scan_appends_all(_, _, _)
taskhistory_scan_appends_all(hist, timeAllocations, i) ==
    IF i > Len(timeAllocations) THEN hist
    ELSE IF timeAllocations[i].task # None
    THEN taskhistory_scan_appends_all(Append(hist, timeAllocations[i].task),
                                      timeAllocations, i + 1)
    ELSE taskhistory_scan_appends_all(hist, timeAllocations, i + 1)

\* the for loop of taskhistory over timesheet.timeAllocations, from the
\* i-th allocation on: a task whose uri is not in history yet is appended
RECURSIVE taskhistory_scan(_, _, _)
taskhistory_scan(hist, timeAllocations, i) ==
    IF i > Len(timeAllocations) THEN hist
    ELSE LET allocation == timeAllocations[i]
         IN  IF /\ allocation.task # None
                /\ allocation.task.uri \notin { hist[j].uri : j \in 1..Len(hist) }
             THEN taskhistory_scan(Append(hist, allocation.task), timeAllocations, i + 1)
             ELSE taskhistory_scan(hist, timeAllocations, i + 1)

\* history[:HISTORY_LENGTH]
taskhistory_output(hist) ==
    SubSeq(hist, 1, IF Len(hist) < HISTORY_LENGTH THEN Len(hist) ELSE HISTORY_LENGTH)

\* getTimesheet(date): GetTimesheetDetails, and what the subcommand does
\* with the Timesheet: timesheet lists it; clear empties it and goes on to
\* PUT it; book books and goes on to PUT it; taskhistory collects its
\* tasks, steps to the day before its start date and loops while history
\* is shorter than HISTORY_LENGTH
GetTimesheet_Details ==
    /\ pc = "getTimesheet.GetTimesheetDetails"
    /\ getUrl("GetTimesheetDetails",
              LET sheet == Timesheet(ServerTimesheetJson(
                               IF args.func = "taskhistory" THEN day ELSE args.date))
              IN  IF args.func = "timesheet"
                  THEN /\ timesheet' = sheet
                       /\ Done
                       /\ UNCHANGED <<history, day, printed>>
                  ELSE IF args.func = "clear"
                  THEN /\ timesheet' = clear(sheet)
                       /\ pc' = "PutStandardTimesheet2"
                       /\ UNCHANGED <<exitCode, msg, history, day, printed>>
                  ELSE IF args.func = "book"
                  THEN LET r == book(sheet.timeAllocations, args.date, project, task,
                                     args.duration, args.comment)
                       IN  /\ timesheet' = [sheet EXCEPT !.timeAllocations = r.timeAllocations]
                           /\ IF r.exc # "" THEN Raise(r.exc)
                              ELSE /\ pc' = "PutStandardTimesheet2"
                                   /\ UNCHANGED <<exitCode, msg>>
                           /\ UNCHANGED <<history, day, printed>>
                  ELSE LET hist == taskhistory_scan(history, sheet.timeAllocations, 1)
                           prev == minus_one_day(sheet.start_date)
                       IN  /\ timesheet' = sheet
                           /\ history' = hist
                           /\ IF prev = DateError
                              THEN Raise("OverflowError") /\ UNCHANGED <<day, printed>>
                              ELSE /\ day' = prev
                                   /\ IF Len(hist) < HISTORY_LENGTH
                                      THEN /\ pc' = "getTimesheet.GetTimesheetForDate2"
                                           /\ UNCHANGED <<exitCode, msg, printed>>
                                      ELSE /\ printed' = taskhistory_output(hist)
                                           /\ Done,
              UNCHANGED <<timesheet, history, day, printed>>)
    /\ UNCHANGED <<swimlane, userURI, self_timesheet, clients, args, server,
                   lastPut, client, project, task, users>>
    /\ UNCHANGED callerVars

\* timesheet.put(), and the PUT of timesheet.clear(): PutStandardTimesheet2
PutTimesheet ==
    /\ pc = "PutStandardTimesheet2"
    /\ lastPut' = put_json(timesheet)
    /\ getUrl("PutStandardTimesheet2", Done, TRUE)
    /\ UNCHANGED <<swimlane, userURI, self_timesheet, clients, args, server>>
    /\ UNCHANGED localVars
    /\ UNCHANGED callerVars

\* timesheetperiod: getTimesheetPeriods(...)[0], an IndexError on an empty list
GetTimesheetPeriods ==
    /\ pc = "GetTimesheetPeriods"
    /\ getUrl("GetTimesheetPeriods",
              \E periods \in 0..1 :
                 IF periods = 0 THEN Raise("IndexError") ELSE Done,
              TRUE)
    /\ UNCHANGED others

Next ==
    \/ Discovery
    \/ GetEnabledUsers
    \/ Dispatch
    \/ GetClients_ForDate2
    \/ GetClients_Details
    \/ GetClients_Clients
    \/ GetProjects_ForDate2
    \/ GetProjects_Details
    \/ GetProjects_Projects
    \/ GetTasks_Tasks
    \/ GetCustomFields
    \/ GetTimesheet_ForDate2
    \/ GetTimesheet_Details
    \/ PutTimesheet
    \/ GetTimesheetPeriods

Spec == Init /\ [][Next]_vars

\* C3: once a reply carrying an error field is received, from the discovery
\* call or from any _getUrl call, the process has exited with status 1, and
\* no request is issued from then on
C3_ErrorReplyExitsAtOnce ==
    /\ [](lastReply = "error" => (pc = "exited" /\ exitCode = 1))
    /\ [][lastReply = "error" => UNCHANGED requests]_vars

\* an error reply to the page of clients, the fourth request of the run,
\* has ended the run
C3_Witness ==
    /\ lastReply = "error"
    /\ pc = "exited"
    /\ exitCode = 1
    /\ requests["GetPageOfClients"] = 1
    /\ requests["GetPageOfProjects"] = 0

\* the state right after GetEnabledUsers was answered: the construction is
\* over or has ended the process, and no subcommand has started
C5_UsersAnswered ==
    /\ args = None
    /\ requests["GetEnabledUsers"] = 1
    /\ lastReply = "ok"
    /\ pc # "GetEnabledUsers"

C5_Matching == { i \in 1..Len(users) : users[i].loginName = ConfigLoginName }

\* C5: when GetEnabledUsers returns a list with one user whose loginName is
\* the configured one, the construction completes without exiting and
\* userURI is that user's uri, whatever users precede or follow it
C5_MatchingUserBecomesUserURI ==
    (C5_UsersAnswered /\ Cardinality(C5_Matching) = 1)
        => /\ pc = "constructed"
           /\ exitCode = Running
           /\ \A i \in C5_Matching : userURI = users[i].uri

\* the matching user is the second of three
C5_Witness ==
    /\ C5_UsersAnswered
    /\ Len(users) = 3
    /\ C5_Matching = {2}
    /\ pc = "constructed"
    /\ userURI = users[2].uri

\* C6: when GetEnabledUsers returns a list with no user whose loginName is
\* the configured one, the construction takes the "unable to find current
\* user URI" exit: sys.exit(1) after that message, userURI never set
C6_NoMatchingUserExits ==
    (C5_UsersAnswered /\ C5_Matching = {})
        => /\ pc = "exited"
           /\ exitCode = 1
           /\ msg = "Error: unable to find current user URI"
           /\ userURI = <<>>

\* a name given on the command line matched no item of its list
C4_Unresolved ==
    \/ args.client # "" /\ client = None
    \/ project = None
    \/ task = None

\* C4: in projects, tasks and book, a client, project or task name that
\* matches no item of its list makes the command exit with an error message
\* and status 1, and no timesheet is PUT
C4_UnresolvedNameExits ==
    (/\ args # None
     /\ args.func \in {"projects", "tasks", "book"}
     /\ C4_Unresolved)
        => /\ pc = "exited"
           /\ exitCode = 1
           /\ requests["PutStandardTimesheet2"] = 0

\* C9: the walk of taskhistory ends by printing its result, also when the
\* periods of the user hold fewer than 5 distinct tasks: a run in which the
\* service answers every request does not end in an exception
C9_TaskHistoryTerminates ==
    (/\ args # None
     /\ args.func = "taskhistory"
     /\ lastReply = "ok"
     /\ Len(history) < HISTORY_LENGTH)
        => pc # "raised"

\* the uris of the tasks in history
C12_Uris(hist) == { hist[i].uri : i \in 1..Len(hist) }

\* the position of the first allocation of a timesheet with the task of uri u
C12_FirstAt(tas, u) ==
    CHOOSE i \in 1..Len(tas) :
        /\ tas[i].task # None
        /\ tas[i].task.uri = u
        /\ \A j \in 1..(i - 1) : tas[j].task = None \/ tas[j].task.uri # u

\* a step of taskhistory that has read a timesheet
C12_ReadsTimesheet ==
    /\ args # None
    /\ args.func = "taskhistory"
    /\ pc = "getTimesheet.GetTimesheetDetails"
    /\ lastReply' = "ok"

\* C12: in taskhistory the history never holds two tasks with one uri; a
\* timesheet read appends, to the history so far, the tasks of its
\* allocations that are not in it yet, in the order of their first
\* allocation; the next timesheet requested is that of the day before the
\* start date of the one just read, an earlier day than the one requested
\* before; and at most HISTORY_LENGTH tasks are printed
C12_HistoryIsDistinctAndOrdered ==
    /\ [](\A i, j \in 1..Len(history) :
              history[i].uri = history[j].uri => i = j)
    /\ [](Len(printed) <= HISTORY_LENGTH)
    /\ [][C12_ReadsTimesheet =>
            LET tas == timesheet'.timeAllocations
                n   == Len(history)
            IN  /\ Len(history') >= n
                /\ SubSeq(history', 1, n) = history
                /\ C12_Uris(history') =
                      C12_Uris(history)
                      \cup { tas[i].task.uri : i \in { k \in 1..Len(tas) : tas[k].task # None } }
                /\ \A a, b \in (n + 1)..Len(history') :
                      a < b => C12_FirstAt(tas, history'[a].uri)
                               < C12_FirstAt(tas, history'[b].uri)
                /\ pc' = "getTimesheet.GetTimesheetForDate2"
                      => (day' = timesheet'.start_date - 1 /\ day' < day)
                /\ pc' = "done"
                      => /\ Len(history') >= HISTORY_LENGTH
                         /\ printed' = SubSeq(history', 1, HISTORY_LENGTH)]_vars

\* the walk has read two periods, collected six distinct tasks and printed
\* the first five of them
C12_Witness ==
    /\ args # None
    /\ args.func = "taskhistory"
    /\ pc = "done"
    /\ requests["GetTimesheetDetails"] = 2
    /\ Len(history) = 6
    /\ Len(printed) = 5

----------------------------------------------------------------------------
(* SpecClients: a caller of getClients() and getClient() on one session    *)

\* the names the caller looks up
ClientSearches == {"Acme", "4", "nope"}

\* a constructed session: both requests of the construction were answered
InitClients ==
    /\ pc = "ready"
    /\ exitCode = Running
    /\ msg = ""
    /\ lastReply = "ok"
    /\ requests = [NoRequests EXCEPT !["Discovery"] = 1, !["GetEnabledUsers"] = 1]
    /\ swimlane = "https://swimlane/"
    /\ userURI = UserJson(ConfigLoginName, "5").uri
    /\ self_timesheet = None
    /\ clients = <<>>
    /\ args = CommandLine("library", D1, "", "", "", "")
    /\ client = Unset
    /\ project = Unset
    /\ task = Unset
    /\ timesheet = Unset
    /\ lastPut = None
    /\ ops = <<>>
    /\ users = <<>>
    /\ printed = <<>>
    /\ history = <<>>
    /\ day = 0
    /\ server = [sheets |-> <<>>]
    /\ calls = 0
    /\ conv = NoConv

\* replicon.getClients(): returns self.clients at once when it is truthy
CallGetClients ==
    /\ pc = "ready"
    /\ calls < MaxClientCalls
    /\ calls' = calls + 1
    /\ ops' = Append(ops, "getClients")
    /\ pc' = IF getClients_first(clients, self_timesheet) = "cached" THEN "ready"
             ELSE getClients_first(clients, self_timesheet)
    /\ UNCHANGED <<exitCode, msg, lastReply, requests, args, server, lastPut, conv>>
    /\ UNCHANGED sessionVars
    /\ UNCHANGED localVars

\* replicon.getClient(search): getClients(), then the lookup
CallGetClient ==
    /\ pc = "ready"
    /\ calls < MaxClientCalls
    /\ calls' = calls + 1
    /\ ops' = Append(ops, "getClient")
    /\ \E search \in ClientSearches :
         /\ args' = [args EXCEPT !.client = search]
         /\ IF getClients_first(clients, self_timesheet) = "cached"
            THEN /\ pc' = "ready"
                 /\ client' = find_client(clients, search)
            ELSE /\ pc' = getClients_first(clients, self_timesheet)
                 /\ UNCHANGED client
    /\ UNCHANGED <<exitCode, msg, lastReply, requests, server, lastPut, conv,
                   project, task, timesheet, users, printed, history, day>>
    /\ UNCHANGED sessionVars

NextClients ==
    \/ CallGetClients
    \/ CallGetClient
    \/ GetClients_ForDate2
    \/ GetClients_Details
    \/ GetClients_Clients

SpecClients == InitClients /\ [][NextClients]_vars

\* C7 as stated: the client-list request is issued by the first call only
C7_ClientListFetchedOnce ==
    requests["GetPageOfClients"] <= 1

\* C7, as the code has it: the timesheet is fetched by the first call only;
\* once self.clients holds a non-empty list no call issues a request; while
\* it is empty, every call asks for the page of clients again
C7_NonEmptyClientListIsCached ==
    /\ [](requests["GetTimesheetForDate2"] <= 1 /\ requests["GetTimesheetDetails"] <= 1)
    /\ [][clients # <<>> => (UNCHANGED requests /\ UNCHANGED clients /\ pc' = "ready")]_vars
    /\ [][(pc = "ready" /\ clients = <<>> /\ self_timesheet # None /\ calls' # calls)
              => pc' = "getClients.GetPageOfClients"]_vars

\* three calls: the list came back empty, was asked for again and came back
\* with clients, and the third call was served without a request
C7_Witness ==
    /\ pc = "ready"
    /\ Len(ops) = 3
    /\ clients # <<>>
    /\ requests["GetPageOfClients"] = 2
    /\ requests["GetTimesheetForDate2"] = 1

----------------------------------------------------------------------------
(* SpecTimesheet: a caller holding one Timesheet object calls book, put    *)
(* and clear on it                                                         *)

\* what the caller books: the base combination and the combinations that
\* differ from it in one field, for 1800 s and 3600 s; a missing project;
\* and a duration passed as a str
BookCalls ==
    { [date |-> c[1], project |-> c[2], task |-> c[3], duration |-> PyInt(n),
       comment |-> "x"] :
        c \in { <<D1, Project([project |-> P1]), Task([task |-> T1])>>,
                <<D2, Project([project |-> P1]), Task([task |-> T1])>>,
                <<D1, Project([project |-> P2]), Task([task |-> T1])>>,
                <<D1, Project([project |-> P1]), None>> },
        n \in {1800, 3600} }
    \cup { [date |-> D1, project |-> None, task |-> None,
            duration |-> PyInt(1800), comment |-> "x"],
           [date |-> D1, project |-> Project([project |-> P1]),
            task |-> Task([task |-> T1]),
            duration |-> PyStr(1800), comment |-> "x"] }

InitTimesheet ==
    /\ pc = "ready"
    /\ exitCode = Running
    /\ msg = ""
    /\ lastReply = "none"
    /\ requests = NoRequests
    /\ swimlane = "swimlane"
    /\ userURI = <<"urn", "replicon-tenant", "acme", "user", "5">>
    /\ self_timesheet = None
    /\ clients = <<>>
    /\ args = None
    /\ client = None
    /\ project = None
    /\ task = None
    /\ \E tas \in ServerTimeAllocations : timesheet = Timesheet(TimesheetJson(tas))
    /\ lastPut = None
    /\ ops = <<>>
    /\ users = <<>>
    /\ printed = <<>>
    /\ history = <<>>
    /\ day = 0
    /\ server = None
    /\ calls = 0
    /\ conv = NoConv

\* timesheet.book(date, project, task, duration, comment, fieldset)
TsBook ==
    /\ pc = "ready"
    /\ calls < MaxCalls
    /\ \E c \in BookCalls :
         LET r == book(timesheet.timeAllocations, c.date, c.project, c.task,
                       c.duration, c.comment)
         IN  /\ args' = c
             /\ timesheet' = [timesheet EXCEPT !.timeAllocations = r.timeAllocations]
             /\ IF r.exc = "" THEN UNCHANGED <<pc, exitCode, msg>>
                ELSE Raise(r.exc)
    /\ ops' = Append(ops, "book")
    /\ calls' = calls + 1
    /\ UNCHANGED <<lastReply, requests, swimlane, userURI, self_timesheet,
                   clients, client, project, task, lastPut, users, printed,
                   history, day, server, conv>>

\* timesheet.put(): self.replicon.putTimesheet(self.put_json())
TsPut ==
    /\ pc = "ready"
    /\ calls < MaxCalls
    /\ lastPut' = put_json(timesheet)
    /\ ops' = Append(ops, "put")
    /\ calls' = calls + 1
    /\ getUrl("PutStandardTimesheet2",
              UNCHANGED <<pc, exitCode, msg>>,
              TRUE)
    /\ UNCHANGED <<swimlane, userURI, self_timesheet, clients, args, client,
                   project, task, timesheet, users, printed, history, day,
                   server, conv>>

\* timesheet.clear(): the allocations are emptied, then the PUT is sent
TsClear ==
    /\ pc = "ready"
    /\ calls < MaxCalls
    /\ timesheet' = clear(timesheet)
    /\ lastPut' = put_json(clear(timesheet))
    /\ ops' = Append(ops, "clear")
    /\ calls' = calls + 1
    /\ getUrl("PutStandardTimesheet2",
              UNCHANGED <<pc, exitCode, msg>>,
              TRUE)
    /\ UNCHANGED <<swimlane, userURI, self_timesheet, clients, args, client,
                   project, task, users, printed, history, day, server,
                   conv>>

NextTimesheet == TsBook \/ TsPut \/ TsClear

SpecTimesheet == InitTimesheet /\ [][NextTimesheet]_vars

\* the allocation a has the date, project, task and (empty) custom field
\* values of the book call c
C1_SameFields(a, c) ==
    /\ a.date = c.date
    /\ a.json.project = c.project.json
    /\ a.json.task = (IF c.task # None THEN c.task.json ELSE None)
    /\ a.json.customFieldValues = <<>>

C2_ClearEmptiesAndIsIdempotent ==
    [][ ( LastOp' = "clear" /\ calls' = calls + 1 )
        =>
        /\ timesheet'.timeAllocations = <<>>
        /\ DOMAIN lastPut'.rows = {}
        /\ lastPut'.uri = timesheet.uri
        /\ requests' = [requests EXCEPT !["PutStandardTimesheet2"] = @ + 1]
        /\ (LastOp = "clear" => timesheet' = timesheet /\ lastPut' = lastPut)
      ]_vars

\* a timesheet with an allocation has been cleared, and cleared again
C2_Witness ==
    /\ ops = <<"book", "clear", "clear">>
    /\ requests["PutStandardTimesheet2"] = 2
    /\ timesheet.timeAllocations = <<>>

\* project URI and task URI (<<>> without a task) of an allocation
C8_ProjectTask(a) ==
    <<a.project.uri, IF a.task # None THEN a.task.uri ELSE <<>> >>

\* project URI and task URI of a row of the PUT body
C8_RowProjectTask(row) ==
    <<row.project.uri, IF row.task # None THEN row.task.uri ELSE <<>> >>

C13_Identical(a, b) ==
    /\ a.date = b.date
    /\ a.json.project = b.json.project
    /\ a.json.task = b.json.task
    /\ a.json.customFieldValues = b.json.customFieldValues

C13_NoTwoIdentical(tas) ==
    \A i, j \in 1..Len(tas) : C13_Identical(tas[i], tas[j]) => i = j

\* the sum of the durations of the allocations
RECURSIVE C13_Total(_)
C13_Total(tas) ==
    IF tas = <<>> THEN 0
    ELSE tas[1].duration_seconds + C13_Total(Tail(tas))

\* C13: every book() call that returns adds its duration to the sum of the
\* allocations' durations, and leaves a timesheet without two allocations
\* for identical (date, project, task, custom field values) without two
\* such allocations; hence both hold after any sequence of book() calls.
\* A call that raises leaves the allocations as they were.
C13_BookKeepsDistinctAndAddsUp ==
    [][(ops' # ops /\ ops'[Len(ops')] = "book")
         => IF pc' = "ready"
            THEN /\ C13_Total(timesheet'.timeAllocations)
                      = C13_Total(timesheet.timeAllocations) + args'.duration.val
                 /\ C13_NoTwoIdentical(timesheet.timeAllocations)
                      => C13_NoTwoIdentical(timesheet'.timeAllocations)
            ELSE timesheet' = timesheet]_vars

\* an empty timesheet after three bookings, two of them for the same
\* fields: two allocations, 7200 s in all
C13_Witness ==
    /\ pc = "ready"
    /\ ops = <<"book", "book", "book">>
    /\ Len(timesheet.timeAllocations) = 2
    /\ C13_NoTwoIdentical(timesheet.timeAllocations)
    /\ C13_Total(timesheet.timeAllocations) = 7200

\* the cells of a PUT body, each named by its row's key and its position
C14_Cells(body) ==
    UNION { { <<k, c>> : c \in 1..Len(body.rows[k].cells) } : k \in DOMAIN body.rows }

\* the cell kc of the body is in a row for the project and task of
\* allocation a and carries a's date and duration
C14_CellIsFor(body, kc, a) ==
    LET row  == body.rows[kc[1]]
        cell == row.cells[kc[2]]
    IN  /\ row.project.uri = a.project.uri
        /\ row.task = (IF a.task = None THEN None ELSE [uri |-> a.task.uri])
        /\ dict_to_date(cell.date) = a.date
        /\ cell.duration.seconds = a.duration_seconds

\* allocations a and b have the same project, task, date and duration
C14_Alike(a, b) ==
    /\ a.project.uri = b.project.uri
    /\ a.task = None <=> b.task = None
    /\ a.task # None => a.task.uri = b.task.uri
    /\ a.date = b.date
    /\ a.duration_seconds = b.duration_seconds

\* the sum of the durations of a set of cells
RECURSIVE C14_CellTotal(_, _)
C14_CellTotal(body, cells) ==
    IF cells = {} THEN 0
    ELSE LET kc == CHOOSE x \in cells : TRUE
         IN  body.rows[kc[1]].cells[kc[2]].duration.seconds
             + C14_CellTotal(body, cells \ {kc})

RECURSIVE C14_Total(_)
C14_Total(tas) ==
    IF tas = <<>> THEN 0
    ELSE tas[1].duration_seconds + C14_Total(Tail(tas))

\* C14: the body put_json builds holds one cell per allocation: as many
\* cells as allocations, and for every allocation as many cells in a row of
\* its project and task with its date and duration as there are allocations
\* with that project, task, date and duration; the cells' durations add up
\* to the allocations'; and put() leaves the timesheet as it was
C14_PutLosesAndInventsNoTime ==
    [][(ops' # ops /\ ops'[Len(ops')] \in {"put", "clear"})
         => LET tas  == timesheet'.timeAllocations
                body == lastPut'
            IN  /\ ops'[Len(ops')] = "put" => timesheet' = timesheet
                /\ body.uri = timesheet.uri
                /\ Cardinality(C14_Cells(body)) = Len(tas)
                /\ \A i \in 1..Len(tas) :
                      Cardinality({ kc \in C14_Cells(body) : C14_CellIsFor(body, kc, tas[i]) })
                      = Cardinality({ j \in 1..Len(tas) : C14_Alike(tas[i], tas[j]) })
                /\ C14_CellTotal(body, C14_Cells(body)) = C14_Total(tas)]_vars

\* a timesheet with two allocations for one project and task was booked on
\* for another project and PUT: two rows, three cells
C14_Witness ==
    /\ ops = <<"book", "put">>
    /\ pc = "ready"
    /\ Len(timesheet.timeAllocations) = 3
    /\ Cardinality(DOMAIN lastPut.rows) = 2
    /\ Cardinality(C14_Cells(lastPut)) = 3
    /\ C14_CellTotal(lastPut, C14_Cells(lastPut)) = C14_Total(timesheet.timeAllocations)

----------------------------------------------------------------------------
(* SpecConv: the conversion helpers applied to bounded inputs              *)

\* the dates converted: the first years of the calendar, and days around
\* the ends of February and of the year in 1900, 2000, 2023, 2024 and 9999
DateInputs ==
    (1..MaxOrdinal)
    \cup { DaysBeforeYear(y) + k : y \in {1900, 2000, 2023, 2024}, k \in 58..61 }
    \cup { DaysBeforeYear(y + 1) - k : y \in {1900, 2000, 2023, 2024, 9999}, k \in 0..1 }
    \cup { DaysBeforeYear(y) + 1 : y \in {1901, 2001, 2024, 2025} }

InitConv ==
    /\ pc = "conv"
    /\ exitCode = Running
    /\ msg = ""
    /\ lastReply = "none"
    /\ requests = NoRequests
    /\ swimlane = ""
    /\ userURI = <<>>
    /\ self_timesheet = None
    /\ clients = <<>>
    /\ args = None
    /\ client = None
    /\ project = None
    /\ task = None
    /\ timesheet = None
    /\ lastPut = None
    /\ ops = <<>>
    /\ users = <<>>
    /\ printed = <<>>
    /\ history = <<>>
    /\ day = 0
    /\ server = None
    /\ calls = 0
    /\ \E d \in DateInputs : conv = [stage |-> "date", date |-> d]

nonConvVars == <<pc, exitCode, msg, lastReply, requests, swimlane, userURI,
                 self_timesheet, clients, args, client, project, task,
                 timesheet, lastPut, ops, users, printed, history, day,
                 server, calls>>

DateToDict ==
    /\ conv.stage = "date"
    /\ conv' = [stage |-> "dict", date |-> conv.date,
                dict |-> date_to_dict(conv.date)]
    /\ UNCHANGED nonConvVars

DictToDate ==
    /\ conv.stage = "dict"
    /\ conv' = [stage |-> "back", date |-> conv.date, dict |-> conv.dict,
                back |-> dict_to_date(conv.dict)]
    /\ UNCHANGED nonConvVars

NextConv == DateToDict \/ DictToDate

SpecConv == InitConv /\ [][NextConv]_vars

\* C10: date round trip: for every calendar date D,
\* dict_to_date(date_to_dict(D)) = D.
C10_DateRoundTrip ==
    conv.stage = "back" => conv.back = conv.date

\* a leap day (29 February) has gone through both conversions
C10_Witness ==
    /\ conv.stage = "back"
    /\ conv.dict.month = 2
    /\ conv.dict.day = 29
    /\ conv.dict.year = 2024

----------------------------------------------------------------------------
(* SpecDuration: dict_to_seconds applied to bounded duration dicts, and    *)
(* the duration of an allocation booked for a number of seconds            *)

\* minutes and seconds of the durations converted: below 60, 60 and above
DurationParts == {0, 1, 59, 60, 61, 125}

\* the duration dicts converted
DurationInputs ==
    { [hours |-> PyInt(h), minutes |-> PyInt(m), seconds |-> PyInt(sec)] :
        h \in 0..MaxHours, m \in DurationParts, sec \in DurationParts }

InitDuration ==
    /\ pc = "conv"
    /\ exitCode = Running
    /\ msg = ""
    /\ lastReply = "none"
    /\ requests = NoRequests
    /\ swimlane = ""
    /\ userURI = <<>>
    /\ self_timesheet = None
    /\ clients = <<>>
    /\ args = None
    /\ client = None
    /\ project = None
    /\ task = None
    /\ timesheet = None
    /\ lastPut = None
    /\ ops = <<>>
    /\ users = <<>>
    /\ printed = <<>>
    /\ history = <<>>
    /\ day = 0
    /\ server = None
    /\ calls = 0
    /\ \E d \in DurationInputs : conv = [stage |-> "duration", dict |-> d]

\* dict_to_seconds(dict_duration)
DictToSeconds ==
    /\ conv.stage = "duration"
    /\ conv' = [stage |-> "seconds", dict |-> conv.dict,
                seconds |-> dict_to_seconds(conv.dict)]
    /\ UNCHANGED nonConvVars

\* book() of conv.dict.seconds seconds on a timesheet without allocations:
\* the TimesheetAllocation it appends
BookSeconds ==
    /\ conv.stage = "duration"
    /\ conv.dict.hours = PyInt(0)
    /\ conv.dict.minutes = PyInt(0)
    /\ LET r == book(<<>>, D1, Project([project |-> P1]), None,
                     conv.dict.seconds, "")
       IN  conv' = [stage |-> "booked", dict |-> conv.dict,
                    allocation |-> r.timeAllocations[1]]
    /\ UNCHANGED nonConvVars

NextDuration == DictToSeconds \/ BookSeconds

SpecDuration == InitDuration /\ [][NextDuration]_vars

\* C11: dict_to_seconds of {hours h, minutes m, seconds s} is
\* h*3600 + m*60 + s for non-negative integers, m and s of 60 and more
\* included; an allocation booked as {hours 0, minutes 0, seconds d} has
\* duration_seconds d
C11_DurationInSeconds ==
    /\ conv.stage = "seconds"
          => conv.seconds = conv.dict.hours.val * 3600
                            + conv.dict.minutes.val * 60
                            + conv.dict.seconds.val
    /\ conv.stage = "booked"
          => conv.allocation.duration_seconds = conv.dict.seconds.val

\* 2 hours, 61 minutes and 125 seconds were converted to 10985 seconds
C11_Witness ==
    /\ conv.stage = "seconds"
    /\ conv.dict.hours.val = 2
    /\ conv.dict.minutes.val = 61
    /\ conv.dict.seconds.val = 125
    /\ conv.seconds = 10985

====
